---- MODULE Spec2Model ----
(***************************************************************************)
(* Model of the preflop range quiz (src/src/App.tsx): the reference-table  *)
(* bootstrap, the progress store kept in localStorage, the weighted hand   *)
(* selector and the answer / next handlers of the App component.           *)
(*                                                                         *)
(* JavaScript values are tagged records, so that a value read back from    *)
(* localStorage keeps whatever type the blob gave it.  The blob itself is  *)
(* a separate representation (absent, a text that is not JSON, or a JSON   *)
(* document); JSON.stringify and JSON.parse convert between the two.       *)
(***************************************************************************)
EXTENDS Integers, Sequences, FiniteSets, TLC

(***************************************************************************)
(* Bounds of the model.                                                    *)
(***************************************************************************)
MaxRows == 2       \* rows of the fetched reference table
MaxMisses == 3     \* an item is not missed again once its weight reaches this
MaxClock == 1      \* distinct instants new Date() can return
MaxOption == 2     \* the first MaxOption entries of PLAYER_OPTIONS are clicked
DrawScale == 2     \* Math.random() * totalWeight is drawn in steps of 1/DrawScale

(***************************************************************************)
(* JavaScript values.                                                      *)
(***************************************************************************)
Undef == [t |-> "undef"]
Null == [t |-> "null"]
NaN == [t |-> "nan"]
Num(n) == [t |-> "num", n |-> n]
Str(s) == [t |-> "str", s |-> s]
Obj(f) == [t |-> "obj", f |-> f]
EmptyFields == [k \in {} |-> Undef]

\* a ?? b
Coalesce(a, b) == IF a.t \in {"undef", "null"} THEN b ELSE a

\* v[k] where v is not null or undefined (those throw a TypeError)
Get(v, k) == IF v.t = "obj" /\ k \in DOMAIN v.f THEN v.f[k] ELSE Undef

\* v?.k
OptGet(v, k) == IF v.t \in {"undef", "null"} THEN Undef ELSE Get(v, k)

\* the own enumerable properties copied by { ...v } (none for a number, null or undefined)
Spread(v) == IF v.t = "obj" THEN v.f ELSE EmptyFields

(***************************************************************************)
(* The localStorage blob and JSON.                                         *)
(***************************************************************************)
Absent == [b |-> "absent"]
Text(s) == [b |-> "text", s |-> s]
Doc(j) == [b |-> "json", j |-> j]

JNull == [j |-> "null"]
JNum(n) == [j |-> "num", n |-> n]
JStr(s) == [j |-> "str", s |-> s]
JObj(f) == [j |-> "obj", f |-> f]

RECURSIVE ToJson(_)
\* JSON.stringify: properties whose value is undefined are left out, NaN becomes null
ToJson(v) ==
    CASE v.t = "num" -> JNum(v.n)
      [] v.t = "str" -> JStr(v.s)
      [] v.t = "obj" -> JObj([k \in {x \in DOMAIN v.f : v.f[x].t # "undef"} |-> ToJson(v.f[k])])
      [] OTHER -> JNull

RECURSIVE FromJson(_)
\* JSON.parse of a text that is a JSON document
FromJson(j) ==
    CASE j.j = "num" -> Num(j.n)
      [] j.j = "str" -> Str(j.s)
      [] j.j = "obj" -> Obj([k \in DOMAIN j.f |-> FromJson(j.f[k])])
      [] OTHER -> Null

(***************************************************************************)
(* Program constants.                                                      *)
(***************************************************************************)
PLAYER_OPTIONS == <<0, 1, 2, 3, 5, 7, 8, 9, 10>>

DEFAULT_PROGRESS == [totalMisses |-> Num(0), perHand |-> Obj(EmptyFields)]

\* new Date().toISOString() at instant n
toISOString(n) == Str(<<"2025-01-01T00:00:01.000Z", "2025-01-01T00:00:02.000Z",
                        "2025-01-01T00:00:03.000Z", "2025-01-01T00:00:04.000Z">>[n])

(***************************************************************************)
(* Reference loader helpers.                                               *)
(***************************************************************************)
\* Number(value) for the cell texts of the model
Number(s) ==
    CASE s = "" -> Num(0)
      [] s = "0" -> Num(0)
      [] s = "1" -> Num(1)
      [] s = "2" -> Num(2)
      [] s = "3" -> Num(3)
      [] OTHER -> NaN

parseNumber(value, fallback) ==
    LET parsed == Number(value)
    IN IF parsed.t = "num" THEN parsed.n ELSE fallback

\* variant of ensureMinimumMisses without the floor
ensureMinimumMisses_noFloor(misses) == misses
ensureMinimumMisses(misses) == IF misses > 1 THEN misses ELSE 1

\* String.prototype.trim for the cell texts of the model
trim(s) ==
    CASE s = " KK " -> "KK"
      [] s = "AA " -> "AA"
      [] s = "red " -> "red"
      [] OTHER -> s

(***************************************************************************)
(* Progress store: load and persist.                                       *)
(***************************************************************************)
ProgressObj(p) == Obj([k \in {"totalMisses", "perHand"} |->
                          IF k = "totalMisses" THEN p.totalMisses ELSE p.perHand])

loadProgressFromStorage(blob) ==
    IF blob.b = "absent" THEN DEFAULT_PROGRESS          \* getItem returned null
    ELSE IF blob.b = "text" /\ blob.s = "" THEN DEFAULT_PROGRESS   \* !raw
    ELSE IF blob.b = "text" THEN DEFAULT_PROGRESS       \* JSON.parse throws
    ELSE LET parsed == FromJson(blob.j)
         IN IF parsed.t = "null" THEN DEFAULT_PROGRESS  \* parsed.totalMisses throws
            ELSE [totalMisses |-> Coalesce(Get(parsed, "totalMisses"), Num(0)),
                  perHand |-> Coalesce(Get(parsed, "perHand"), Obj(EmptyFields))]

\* the blob left by localStorage.setItem(LOCAL_STORAGE_KEY, JSON.stringify(progress))
\* variant of persistProgress that writes the total without the entries
persistProgress_totalOnly(p) == Doc(ToJson(ProgressObj([p EXCEPT !.perHand = Obj(EmptyFields)])))

persistProgress(p) == Doc(ToJson(ProgressObj(p)))

(***************************************************************************)
(* Bootstrap: normalising the parsed rows and merging the stored progress. *)
(***************************************************************************)
\* the HandRecord built from one row before the stored progress is applied
baseHand(row) ==
    [Hand |-> trim(row.Hand),
     Color |-> trim(row.Color),
     Players |-> parseNumber(row.Players, 0),
     misses |-> ensureMinimumMisses(parseNumber(row.misses, 1)),
     lastMissedAt |-> Undef]

\* the record returned by the map callback: base overlaid with the saved entry
mergeHand(base, storedProgress) ==
    LET saved == Get(storedProgress.perHand, base.Hand)
    IN [base EXCEPT !.misses = Coalesce(OptGet(saved, "misses"), Num(base.misses)).n,
                    !.lastMissedAt = OptGet(saved, "lastMissedAt")]

\* parsed.data.filter(row => Boolean(row?.Hand))
keptRows(data) == SelectSeq(data, LAMBDA row : row.Hand # "")

normalizedHands(data, storedProgress) ==
    LET kept == keptRows(data)
    IN [i \in 1..Len(kept) |-> mergeHand(baseHand(kept[i]), storedProgress)]

(***************************************************************************)
(* Weighted selector.  The draw Math.random() * totalWeight is a multiple  *)
(* of 1/DrawScale in [0, totalWeight); it is passed scaled by DrawScale.   *)
(***************************************************************************)
RECURSIVE totalWeightFrom(_, _)
totalWeightFrom(hs, i) ==
    IF i > Len(hs) THEN 0
    ELSE ensureMinimumMisses(hs[i].misses) + totalWeightFrom(hs, i + 1)

totalWeight(hs) == totalWeightFrom(hs, 1)

\* the values the scaled draw can take for this collection
Draws(hs) == IF Len(hs) = 0 THEN {0} ELSE 0..(DrawScale * totalWeight(hs) - 1)

RECURSIVE walk_compareFirst(_, _, _)
\* variant of walk that tests the threshold before subtracting the weight
walk_compareFirst(hs, i, threshold) ==
    IF i > Len(hs) THEN 0
    ELSE IF threshold <= 0 THEN i
         ELSE walk_compareFirst(hs, i + 1,
                                threshold - DrawScale * ensureMinimumMisses(hs[i].misses))

RECURSIVE walk(_, _, _)
\* the for loop from item i on; 0 when the loop ends without returning
walk(hs, i, threshold) ==
    IF i > Len(hs) THEN 0
    ELSE LET next == threshold - DrawScale * ensureMinimumMisses(hs[i].misses)
         IN IF next <= 0 THEN i ELSE walk(hs, i + 1, next)

\* variant of pickIndex whose first test is hands.length <= 1
pickIndex_singleIsNone(hs, draw) ==
    IF Len(hs) <= 1 THEN 0
    ELSE LET found == walk(hs, 1, draw)
         IN IF found # 0 THEN found ELSE Len(hs)

\* the position of the hand pickWeightedHand returns, 0 for null
pickIndex(hs, draw) ==
    IF Len(hs) = 0 THEN 0
    ELSE LET found == walk(hs, 1, draw)
         IN IF found # 0 THEN found ELSE Len(hs)

pickWeightedHand(hs, draw) ==
    LET i == pickIndex(hs, draw)
    IN IF i = 0 THEN Null ELSE hs[i]

\* the effect on [hands, currentHand]: pick when there are hands and no current hand
pickEffect(hs, cur, draw) ==
    IF Len(hs) = 0 \/ cur # Null THEN cur ELSE pickWeightedHand(hs, draw)

(***************************************************************************)
(* Inputs of the model: reference tables, stored blobs, clicked values.    *)
(***************************************************************************)
RawRow(h, c, p, m) == [Hand |-> h, Color |-> c, Players |-> p, misses |-> m]

RawRows ==
    { RawRow("AA", "navy", "1", "1"),
      RawRow(" KK ", "red ", "x", "0"),
      RawRow("AA ", "navy", "1", "3"),
      RawRow("", "white", "3", "1") }

Tables == UNION { [1..n -> RawRows] : n \in 0..MaxRows }

HandKeys == { trim(row.Hand) : row \in RawRows }

SavedEntry(m, at) == JObj([k \in {"misses", "lastMissedAt"} |-> IF k = "misses" THEN m ELSE at])

StoreDoc(total, perHand) ==
    Doc(JObj([k \in {"totalMisses", "perHand"} |-> IF k = "totalMisses" THEN total ELSE perHand]))

\* The blobs a session can find: none, texts that are not JSON, JSON documents
\* that are not a store, stores of the wrong shape, and stores as the program
\* writes them.  Counts are numbers or null, so the arithmetic on them stays
\* numeric.
InitBlobs ==
    { Absent,
      Text("not json"),
      Text(""),
      Doc(JNull),
      Doc(JNum(5)),
      Doc(JObj([k \in {"totalMisses"} |-> JNum(3)])),
      StoreDoc(JNum(2), JNum(7)),
      StoreDoc(JNum(1), JObj([k \in {"AA"} |-> SavedEntry(JNum(2), JStr("2024-12-31T23:59:59.000Z"))])),
      StoreDoc(JNum(0), JObj([k \in {"AA", "KK"} |->
                                 IF k = "AA" THEN JObj([f \in {"misses"} |-> JNum(0)])
                                 ELSE JObj([f \in {"misses"} |-> JNum(-1)])])),
      Doc(JObj([k \in {"perHand"} |-> JObj([h \in {"KK"} |-> SavedEntry(JNull, JStr("x"))])])) }

Clicked == { PLAYER_OPTIONS[i] : i \in 1..MaxOption }

(***************************************************************************)
(* State.                                                                  *)
(***************************************************************************)
VARIABLES
    hands,          \* useState<HandRecord[]>
    currentHand,    \* useState<HandRecord | null>
    answerStatus,   \* 'idle' | 'correct' | 'incorrect'
    selectedValue,  \* useState<number | null>
    loading,
    error,
    progress,       \* the ProgressStore held in component state
    unmounted,      \* React has removed the tree after an error thrown while rendering
    storage,        \* localStorage item LOCAL_STORAGE_KEY
    setItemThrows,  \* environment: localStorage.setItem throws (quota, blocked storage)
    data,           \* history: parsed.data of the bootstrap that ran
    loaded,         \* history: the store loadProgressFromStorage returned to it
    missed,         \* history: incorrect answers per hand key since the bootstrap
    lastOp          \* history: the handler that ran last, its argument, whether it wrote

appVars == <<hands, currentHand, answerStatus, selectedValue, loading, error, progress,
             unmounted>>
histVars == <<data, loaded, missed>>
vars == <<hands, currentHand, answerStatus, selectedValue, loading, error, progress,
          unmounted, storage, setItemThrows, data, loaded, missed, lastOp>>

Op(name, value, wrote) == [op |-> name, value |-> value, wrote |-> wrote]

Mounted ==
    /\ hands = <<>>
    /\ currentHand = Null
    /\ answerStatus = "idle"
    /\ selectedValue = Null
    /\ loading = TRUE
    /\ error = Null
    /\ progress = DEFAULT_PROGRESS
    /\ unmounted = FALSE
    /\ data = <<>>
    /\ loaded = DEFAULT_PROGRESS
    /\ missed = [k \in HandKeys |-> 0]

Init ==
    /\ Mounted
    /\ storage \in InitBlobs
    /\ setItemThrows = FALSE
    /\ lastOp = Op("mount", Null, FALSE)

\* the same with a storage that may refuse writes
InitStorageFull ==
    /\ Mounted
    /\ storage \in InitBlobs
    /\ setItemThrows \in BOOLEAN
    /\ lastOp = Op("mount", Null, FALSE)

(***************************************************************************)
(* What is rendered.                                                       *)
(***************************************************************************)
loadingView == ~unmounted /\ loading
errorView == ~unmounted /\ ~loading /\ error # Null
quizView == ~unmounted /\ ~loading /\ error = Null

\* disabled attribute of the answer buttons and of the next button
answerDisabled == currentHand = Null \/ answerStatus # "idle"

\* variant of nextDisabled that never disables the button
nextDisabled_never == FALSE

nextDisabled == answerStatus = "idle"

(***************************************************************************)
(* Bootstrap (the mount effect).                                           *)
(***************************************************************************)
\* fetch rejects or the response is not ok: the catch block sets the message
BootstrapFetchError ==
    /\ loading
    /\ error' = Str("CSV fetch failed")
    /\ loading' = FALSE
    /\ lastOp' = Op("bootstrap", Null, FALSE)
    /\ UNCHANGED <<hands, currentHand, answerStatus, selectedValue, progress,
                   unmounted, storage, setItemThrows, data, loaded, missed>>

\* variant of BootstrapParseError that tests parsed.errors after setHands
BootstrapParseError_afterSetHands ==
    /\ loading
    /\ \E table \in Tables :
          LET storedProgress == loadProgressFromStorage(storage)
          IN /\ progress' = storedProgress
             /\ hands' = normalizedHands(table, storedProgress)
             /\ data' = table
             /\ loaded' = storedProgress
    /\ error' = Str("CSV parse failed")
    /\ loading' = FALSE
    /\ lastOp' = Op("bootstrap", Null, FALSE)
    /\ UNCHANGED <<currentHand, answerStatus, selectedValue, unmounted, storage,
                   setItemThrows, missed>>

\* Papa.parse reports errors
BootstrapParseError ==
    /\ loading
    /\ error' = Str("CSV parse failed")
    /\ loading' = FALSE
    /\ lastOp' = Op("bootstrap", Null, FALSE)
    /\ UNCHANGED <<hands, currentHand, answerStatus, selectedValue, progress,
                   unmounted, storage, setItemThrows, data, loaded, missed>>

BootstrapLoaded ==
    /\ loading
    /\ \E table \in Tables :
          LET storedProgress == loadProgressFromStorage(storage)
              normalized == normalizedHands(table, storedProgress)
          IN /\ progress' = storedProgress
             /\ hands' = normalized
             /\ currentHand' \in { pickEffect(normalized, pickWeightedHand(normalized, draw), draw) :
                                      draw \in Draws(normalized) }
             /\ data' = table
             /\ loaded' = storedProgress
    /\ loading' = FALSE
    /\ lastOp' = Op("bootstrap", Null, FALSE)
    /\ UNCHANGED <<answerStatus, selectedValue, error, unmounted, storage, setItemThrows,
                   missed>>

(***************************************************************************)
(* handleAnswer.                                                           *)
(***************************************************************************)
\* variant of totalAfterMiss that leaves the total as it was
totalAfterMiss_same(prev) == prev.totalMisses

\* totalMisses: prev.totalMisses + 1
totalAfterMiss(prev) == Num(prev.totalMisses.n + 1)

\* variant of recordMiss that builds perHand from the new entry alone
recordMiss_dropsOthers(prev, hand, misses, timestamp) ==
    [totalMisses |-> totalAfterMiss(prev),
     perHand |-> Obj(hand :> Obj([k \in {"misses", "lastMissedAt"} |->
                                     IF k = "misses" THEN Num(misses) ELSE timestamp]))]

\* the store the updater passed to updateProgress returns
recordMiss(prev, hand, misses, timestamp) ==
    [totalMisses |-> totalAfterMiss(prev),
     perHand |-> Obj((hand :> Obj([k \in {"misses", "lastMissedAt"} |->
                                      IF k = "misses" THEN Num(misses) ELSE timestamp]))
                     @@ Spread(prev.perHand))]

\* variant of updateProgress that writes the store it was given, not the one it returns
updateProgress_persistsPrev(prev, next) == [progress |-> next, storage |-> persistProgress(prev)]

\* updateProgress: the next store and the blob persistProgress writes for it
updateProgress(prev, next) == [progress |-> next, storage |-> persistProgress(next)]

\* variant of missedHands that leaves the collection as it was
missedHands_stale(prev, cur, misses, timestamp) == prev

\* setHands(prev => prev.map(...)) of the incorrect branch
missedHands(prev, cur, misses, timestamp) ==
    [i \in 1..Len(prev) |->
        IF prev[i].Hand = cur.Hand
        THEN [prev[i] EXCEPT !.misses = misses, !.lastMissedAt = timestamp]
        ELSE prev[i]]

\* variant of answerIgnored that forgets the status test
answerIgnored_noStatus == currentHand = Null

\* the early return of handleAnswer
answerIgnored == currentHand = Null \/ answerStatus # "idle"

\* variant of isCorrect with the comparison inverted
isCorrect_inverted(value, cur) == value # cur.Players

isCorrect(value, cur) == value = cur.Players

\* variant of incrementedMisses that counts from the reference default, not from the hand
incrementedMisses_restart(cur) == 1 + 1

incrementedMisses(cur) == cur.misses + 1

\* setCurrentHand(prev => ...) of the incorrect branch
missedHand(prev, misses, timestamp) ==
    IF prev # Null
    THEN [prev EXCEPT !.misses = misses, !.lastMissedAt = timestamp]
    ELSE prev

handleAnswer(value) ==
    IF answerIgnored
    THEN /\ lastOp' = Op("handleAnswer", Num(value), FALSE)
         /\ UNCHANGED <<appVars, storage, setItemThrows, histVars>>
    ELSE IF isCorrect(value, currentHand)
    THEN /\ selectedValue' = Num(value)
         /\ answerStatus' = "correct"
         /\ lastOp' = Op("handleAnswer", Num(value), FALSE)
         /\ UNCHANGED <<hands, currentHand, loading, error, progress, unmounted, storage,
                        setItemThrows, histVars>>
    ELSE /\ currentHand.misses < MaxMisses
         /\ IF setItemThrows
            \* persistProgress has no try/catch: setItem throws inside the updater of
            \* setProgress, which React runs while rendering the batched updates; no
            \* error boundary is mounted, so none of the updates is committed and
            \* the tree is removed
            THEN /\ unmounted' = TRUE
                 /\ lastOp' = Op("handleAnswer", Num(value), FALSE)
                 /\ UNCHANGED <<hands, currentHand, answerStatus, selectedValue, progress,
                                storage, missed>>
            ELSE /\ selectedValue' = Num(value)
                 /\ answerStatus' = "incorrect"
                 /\ \E instant \in 1..MaxClock :
                       LET timestamp == toISOString(instant)
                           misses == incrementedMisses(currentHand)
                           updated == updateProgress(progress,
                                         recordMiss(progress, currentHand.Hand,
                                                    misses, timestamp))
                           nextHands == missedHands(hands, currentHand, misses, timestamp)
                           nextHand == missedHand(currentHand, misses, timestamp)
                       IN /\ hands' = nextHands
                          /\ currentHand' = pickEffect(nextHands, nextHand, 0)
                          /\ progress' = updated.progress
                          /\ storage' = updated.storage
                 /\ missed' = [missed EXCEPT ![currentHand.Hand] = @ + 1]
                 /\ lastOp' = Op("handleAnswer", Num(value), TRUE)
                 /\ UNCHANGED unmounted
         /\ UNCHANGED <<loading, error, setItemThrows, data, loaded>>

(***************************************************************************)
(* handleNext.                                                             *)
(***************************************************************************)
\* variant of clearedSelection that keeps the clicked value
clearedSelection_kept == selectedValue

\* setSelectedValue(null) of handleNext
clearedSelection == Null

handleNext ==
    IF Len(hands) = 0
    THEN /\ lastOp' = Op("handleNext", Null, FALSE)
         /\ UNCHANGED <<appVars, storage, setItemThrows, histVars>>
    ELSE /\ answerStatus' = "idle"
         /\ selectedValue' = clearedSelection
         /\ currentHand' \in { pickEffect(hands, pickWeightedHand(hands, draw), draw) :
                                  draw \in Draws(hands) }
         /\ lastOp' = Op("handleNext", Null, FALSE)
         /\ UNCHANGED <<hands, loading, error, progress, unmounted, storage, setItemThrows,
                        histVars>>

(***************************************************************************)
(* The user interface: clicks reach a handler only through a rendered,     *)
(* enabled button.                                                         *)
(***************************************************************************)
ClickAnswer == \E value \in Clicked : quizView /\ ~answerDisabled /\ handleAnswer(value)

ClickNext == quizView /\ ~nextDisabled /\ handleNext

\* the reload button of the error view: the page is loaded again, storage stays
ClickReload ==
    /\ errorView
    /\ hands' = <<>>
    /\ currentHand' = Null
    /\ answerStatus' = "idle"
    /\ selectedValue' = Null
    /\ loading' = TRUE
    /\ error' = Null
    /\ progress' = DEFAULT_PROGRESS
    /\ unmounted' = FALSE
    /\ data' = <<>>
    /\ loaded' = DEFAULT_PROGRESS
    /\ missed' = [k \in HandKeys |-> 0]
    /\ lastOp' = Op("reload", Null, FALSE)
    /\ UNCHANGED <<storage, setItemThrows>>

Next ==
    \/ BootstrapFetchError
    \/ BootstrapParseError
    \/ BootstrapLoaded
    \/ ClickAnswer
    \/ ClickNext
    \/ ClickReload

Spec == Init /\ [][Next]_vars

\* the user interface over a storage that may refuse writes
SpecStorageFull == InitStorageFull /\ [][Next]_vars

(***************************************************************************)
(* The handlers on their own: every call of handleAnswer and handleNext,   *)
(* whatever the buttons' disabled attributes say.                          *)
(***************************************************************************)
CallAnswer == \E value \in Clicked : ~unmounted /\ handleAnswer(value)

CallNext == ~unmounted /\ handleNext

NextCalls ==
    \/ BootstrapFetchError
    \/ BootstrapParseError
    \/ BootstrapLoaded
    \/ CallAnswer
    \/ CallNext
    \/ ClickReload

SpecCalls == Init /\ [][NextCalls]_vars

TypeOK ==
    /\ answerStatus \in {"idle", "correct", "incorrect"}
    /\ loading \in BOOLEAN
    /\ \A i \in 1..Len(hands) : hands[i].misses \in Int
    /\ progress.totalMisses.t = "num"

(***************************************************************************)
(* Properties.                                                             *)
(***************************************************************************)
RECURSIVE SumOver(_, _)
SumOver(f, keys) ==
    IF keys = {} THEN 0
    ELSE LET k == CHOOSE x \in keys : TRUE
         IN f[k] + SumOver(f, keys \ {k})

\* incorrect answers since the bootstrap
MissedTotal == SumOver(missed, HandKeys)

\* the stored entry of a hand key, and its miss count
Saved(p, k) == Get(p.perHand, k)
SavedMisses(p, k) == OptGet(Saved(p, k), "misses")

\* the step is a call handleAnswer(value)
AnswerStep == lastOp'.op = "handleAnswer"

\* C1: handleAnswer called while the status is not idle, or while there is no
\* current hand, changes nothing: hands, current hand, status, selected value,
\* progress store and stored blob stay as they are and nothing is written.
C1_IgnoredAnswerChangesNothing ==
    [][(AnswerStep /\ (answerStatus # "idle" \/ currentHand = Null))
         => (/\ UNCHANGED <<hands, currentHand, answerStatus, selectedValue, progress, storage>>
             /\ ~lastOp'.wrote)]_vars

\* a second answer with another value has just been ignored
C1_Witness ==
    /\ lastOp.op = "handleAnswer"
    /\ answerStatus # "idle"
    /\ selectedValue # lastOp.value

\* C2: an answer different from the current hand's Players, given while idle,
\* sets the status to incorrect, raises the weight of the current hand by 1 in
\* the collection and in the current hand, stamps both, stores an entry for the
\* hand whose misses equal the new weight and raises totalMisses by 1.
C2_IncorrectAnswer ==
    [][(AnswerStep /\ answerStatus = "idle" /\ currentHand # Null
          /\ lastOp'.value.n # currentHand.Players)
         => (/\ answerStatus' = "incorrect"
             /\ currentHand'.misses = currentHand.misses + 1
             /\ currentHand'.lastMissedAt.t = "str"
             /\ currentHand'.lastMissedAt.s # ""
             /\ \E i \in 1..Len(hands) :
                   hands[i] = currentHand /\ hands'[i].misses = hands[i].misses + 1
             /\ \A i \in 1..Len(hands) :
                   hands[i].Hand = currentHand.Hand
                     => /\ hands'[i].misses = currentHand'.misses
                        /\ hands'[i].lastMissedAt = currentHand'.lastMissedAt
             /\ SavedMisses(progress', currentHand.Hand) = Num(currentHand'.misses)
             /\ progress'.totalMisses = Num(progress.totalMisses.n + 1))]_vars

\* weight 1 and no stored entry: the entry has misses 2 and the total is 1
C2_Witness ==
    /\ lastOp.op = "handleAnswer"
    /\ answerStatus = "incorrect"
    /\ Saved(loaded, currentHand.Hand) = Undef
    /\ SavedMisses(progress, currentHand.Hand) = Num(2)
    /\ progress.totalMisses = Num(1)

\* C3: an answer equal to the current hand's Players, given while idle, sets the
\* status to correct and leaves hands, current hand, progress store and stored
\* blob as they are; nothing is written.
C3_CorrectAnswer ==
    [][(AnswerStep /\ answerStatus = "idle" /\ currentHand # Null
          /\ lastOp'.value.n = currentHand.Players)
         => (/\ answerStatus' = "correct"
             /\ UNCHANGED <<hands, currentHand, progress, storage>>
             /\ ~lastOp'.wrote)]_vars

\* a correct answer has just been given and the total is still 0
C3_Witness ==
    /\ lastOp.op = "handleAnswer"
    /\ answerStatus = "correct"
    /\ selectedValue = Num(currentHand.Players)
    /\ progress.totalMisses = Num(0)

\* the step is an incorrect answer taking effect
MissStep ==
    /\ AnswerStep
    /\ answerStatus = "idle"
    /\ currentHand # Null
    /\ lastOp'.value.n # currentHand.Players

\* the hand keys that have a stored entry
SavedKeys(p) == DOMAIN Spread(p.perHand)

\* what a recorded miss leaves alone, and the total
MissFrame ==
    /\ progress'.totalMisses = Num(progress.totalMisses.n + 1)
    /\ Get(Saved(progress', currentHand.Hand), "lastMissedAt") = currentHand'.lastMissedAt
    /\ SavedKeys(progress) \subseteq SavedKeys(progress')
    /\ \A k \in SavedKeys(progress) \ {currentHand.Hand} : Saved(progress', k) = Saved(progress, k)

\* C4 as stated: a recorded miss adds 1 to the total, creates the entry of the
\* key with count 1 when there was none and adds 1 to its count when there was
\* one, replaces the timestamp, leaves the other entries alone and deletes none.
C4_CreatedWithCountOne ==
    [][MissStep
         => (/\ MissFrame
             /\ Saved(progress, currentHand.Hand) = Undef
                  => SavedMisses(progress', currentHand.Hand) = Num(1)
             /\ SavedMisses(progress, currentHand.Hand).t = "num"
                  => SavedMisses(progress', currentHand.Hand)
                       = Num(SavedMisses(progress, currentHand.Hand).n + 1))]_vars

\* C4 amended: a recorded miss adds 1 to the total and sets the entry of the
\* key to the weight of the missed hand plus 1, which is the previous count
\* plus 1 when the entry had one; it replaces the timestamp, leaves the other
\* entries alone and deletes none.
C4_CountIsWeightPlusOne ==
    [][MissStep
         => (/\ MissFrame
             /\ SavedMisses(progress', currentHand.Hand) = Num(currentHand.misses + 1)
             /\ SavedMisses(progress, currentHand.Hand).t = "num"
                  => SavedMisses(progress', currentHand.Hand)
                       = Num(SavedMisses(progress, currentHand.Hand).n + 1))]_vars

\* an entry has just been created next to an existing one, with the weight plus 1
C4_Witness ==
    /\ lastOp.wrote
    /\ Saved(loaded, currentHand.Hand) = Undef
    /\ missed[currentHand.Hand] = 1
    /\ SavedMisses(progress, currentHand.Hand) = Num(currentHand.misses)
    /\ currentHand.misses >= 2
    /\ SavedKeys(loaded) # {}
    /\ \A k \in SavedKeys(loaded) : Saved(progress, k) = Saved(loaded, k)

\* the hands as the bootstrap set them
InitialHands == normalizedHands(data, loaded)

\* C5: whatever the order of answers and next clicks, a key missed k times since
\* the bootstrap has its initial count plus k as stored count and as weight of
\* its hands, and totalMisses has grown by the number of misses of all keys.
C5_MissesAccumulate ==
    /\ progress.totalMisses = Num(loaded.totalMisses.n + MissedTotal)
    /\ \A k \in HandKeys :
          missed[k] > 0
            => /\ \E i \in 1..Len(InitialHands) :
                     /\ InitialHands[i].Hand = k
                     /\ SavedMisses(progress, k) = Num(InitialHands[i].misses + missed[k])
               /\ \A i \in 1..Len(hands) :
                     hands[i].Hand = k => Num(hands[i].misses) = SavedMisses(progress, k)

\* one key missed twice with a miss of another key in between or around
C5_Witness ==
    \E k, j \in HandKeys :
        /\ k # j
        /\ missed[k] = 2
        /\ missed[j] = 1
        /\ progress.totalMisses = Num(loaded.totalMisses.n + 3)

\* C6: once an answer was incorrect, loading the stored blob gives the progress
\* store held in memory, in every state up to the next reload.
C6_StoredBlobIsProgress ==
    MissedTotal > 0 => loadProgressFromStorage(storage) = progress

\* two misses were recorded and the next hand is awaited
C6_Witness ==
    /\ MissedTotal >= 2
    /\ answerStatus = "idle"
    /\ storage.b = "json"

\* the persisted state format: { totalMisses: number, perHand: { key: { misses:
\* number, lastMissedAt?: string } } }
WellFormedEntry(e) ==
    /\ e.j = "obj"
    /\ DOMAIN e.f \subseteq {"misses", "lastMissedAt"}
    /\ "misses" \in DOMAIN e.f
    /\ e.f["misses"].j = "num"
    /\ "lastMissedAt" \in DOMAIN e.f => e.f["lastMissedAt"].j = "str"

WellFormedBlob(blob) ==
    /\ blob.b = "json"
    /\ blob.j.j = "obj"
    /\ DOMAIN blob.j.f = {"totalMisses", "perHand"}
    /\ blob.j.f["totalMisses"].j = "num"
    /\ blob.j.f["perHand"].j = "obj"
    /\ \A k \in DOMAIN blob.j.f["perHand"].f : WellFormedEntry(blob.j.f["perHand"].f[k])

\* the reference-table values of the kept rows
ReferenceHands == [i \in 1..Len(keptRows(data)) |-> baseHand(keptRows(data)[i])]

\* C7: for a blob that is absent, not JSON, or JSON of the wrong shape or with
\* fields of the wrong type, loadProgressFromStorage returns the empty store,
\* and the hands merged with it are the reference-table values.
\* (Until the first miss of a session the blob is the one its bootstrap read.)
C7_MalformedBlobLoadsEmpty ==
    (quizView /\ MissedTotal = 0 /\ ~WellFormedBlob(storage))
      => /\ loadProgressFromStorage(storage) = DEFAULT_PROGRESS
         /\ progress = DEFAULT_PROGRESS
         /\ hands = ReferenceHands

\* C8: every hand of the collection and the current hand have misses >= 1.
C8_WeightsAtLeastOne ==
    /\ \A i \in 1..Len(hands) : hands[i].misses >= 1
    /\ currentHand # Null => currentHand.misses >= 1

\* the bootstrap or handleNext has just called pickWeightedHand(hands)
Picked == quizView /\ lastOp.op \in {"bootstrap", "handleNext"}

\* C9: pickWeightedHand returns null exactly for the empty collection; for a
\* non-empty one every draw in [0, totalWeight) returns one of its hands, and so
\* the bootstrap and handleNext leave a current hand whenever there are hands.
C9_PickNoneOnlyWhenEmpty ==
    Picked
      => /\ \A draw \in Draws(hands) :
               LET picked == pickWeightedHand(hands, draw)
               IN /\ picked = Null <=> Len(hands) = 0
                  /\ Len(hands) > 0 => \E i \in 1..Len(hands) : picked = hands[i]
         /\ currentHand = Null <=> Len(hands) = 0

\* handleNext has picked the last of two different hands
C9_Witness ==
    /\ lastOp.op = "handleNext"
    /\ Len(hands) = 2
    /\ hands[1] # hands[2]
    /\ currentHand = hands[2]

\* max(1, weight)
EffectiveWeight(w) == IF w >= 1 THEN w ELSE 1

\* the position picked for each draw
PickedAt(hs) == [draw \in Draws(hs) |-> pickIndex(hs, draw)]

\* the draws strictly between two multiples of 1 for which hand i is picked: as
\* the weights are integers the pick is the same all over such an interval, so
\* this counts the length of the part of [0, totalWeight) that gives hand i, in
\* units of 1 / (DrawScale - 1)
Share(at, i) == Cardinality({ draw \in DOMAIN at : draw % DrawScale # 0 /\ at[draw] = i })

\* C10: the part of the draw range for which a hand is picked is proportional to
\* its effective weight max(1, misses); for two hands the parts are as w1 : w2.
C10_ShareProportionalToWeight ==
    Picked
      => LET at == PickedAt(hands)
             share == [i \in 1..Len(hands) |-> Share(at, i)]
             weight == [i \in 1..Len(hands) |-> EffectiveWeight(hands[i].misses)]
         IN /\ \A i \in 1..Len(hands) : share[i] = (DrawScale - 1) * weight[i]
            /\ \A i, j \in 1..Len(hands) : share[i] * weight[j] = share[j] * weight[i]

\* two hands of different weights, the second picked
C10_Witness ==
    /\ quizView
    /\ Len(hands) = 2
    /\ hands[1].misses >= 1
    /\ hands[2].misses > hands[1].misses
    /\ currentHand = hands[2]

\* C11: every hand of a non-empty collection, whatever its position and also
\* when its misses are 0 or less, is returned by pickWeightedHand for at least
\* one draw in [0, totalWeight), and a hand with misses below 1 takes the part
\* of the draw range of a hand of weight 1.
C11_EveryHandIsPicked ==
    Picked
      => LET at == PickedAt(hands)
         IN \A i \in 1..Len(hands) :
               /\ \E draw \in DOMAIN at : at[draw] = i
               /\ hands[i].misses < 1 => Share(at, i) = DrawScale - 1

\* two hands with misses 0 and -1, the last one picked
C11_Witness ==
    /\ Picked
    /\ Len(hands) = 2
    /\ hands[1].misses = 0
    /\ hands[2].misses < 0
    /\ currentHand = hands[2]

\* C12: a click on the next button takes effect only when the status is correct
\* or incorrect, never while an answer is awaited; answers and next clicks
\* alternate, so every presented hand gets exactly one effective answer before
\* it is replaced.
C12_NextOnlyAfterAnswer ==
    [][/\ lastOp'.op = "handleNext"
          => /\ answerStatus \in {"correct", "incorrect"}
             /\ lastOp.op = "handleAnswer"
             /\ lastOp.value = selectedValue
             /\ answerStatus' = "idle"
       /\ AnswerStep
          => /\ answerStatus = "idle"
             /\ lastOp.op \in {"bootstrap", "handleNext"}
             /\ answerStatus' \in {"correct", "incorrect"}]_vars

\* the next hand was picked after an incorrect answer, and after a correct one
C12_Witness ==
    /\ lastOp.op = "handleNext"
    /\ answerStatus = "idle"
    /\ currentHand # Null
    /\ MissedTotal = 1
    /\ progress.totalMisses = Num(loaded.totalMisses.n + 1)

\* C13: after a bootstrap that ended without error, in every state either an
\* answer can be given (status idle and a current hand) or the next hand can be
\* asked for (status correct or incorrect).
C13_AnswerOrNextEnabled ==
    quizView
      => \/ answerStatus = "idle" /\ currentHand # Null /\ ~answerDisabled
         \/ answerStatus \in {"correct", "incorrect"} /\ ~nextDisabled

\* the reference hands merged with a store
Merged(base, store) == [i \in 1..Len(base) |-> mergeHand(base[i], store)]

\* C14: the merge of the bootstrap is driven by the stored entries and is
\* idempotent: a hand whose key has an entry gets the entry's miss count as
\* weight and the entry's timestamp, a hand without entry keeps the reference
\* weight and has no timestamp, and merging the same store a second time gives
\* the same hands.
C14_MergeIdempotentRecordDriven ==
    (quizView /\ lastOp.op = "bootstrap")
      => LET once == Merged(ReferenceHands, loaded)
         IN /\ hands = once
            /\ Merged(once, loaded) = once
            /\ \A i \in 1..Len(once) :
                  LET saved == Saved(loaded, once[i].Hand)
                  IN IF saved # Undef
                     THEN /\ Num(once[i].misses) = Get(saved, "misses")
                          /\ once[i].lastMissedAt = Get(saved, "lastMissedAt")
                     ELSE /\ once[i].misses = ReferenceHands[i].misses
                          /\ once[i].lastMissedAt = Undef

\* C15: a bootstrap whose fetch fails or whose parse reports errors ends in the
\* error view with an empty collection and no current hand and leaves the
\* stored blob alone; in the error view a call of handleAnswer or handleNext
\* changes nothing, the only step that does is the reload, which starts the
\* bootstrap again over the same blob; a bootstrap runs only in the loading
\* view, which nothing but the mount and the reload bring about.
C15_BootstrapErrorIsFatal ==
    [][/\ errorView'
          => /\ hands' = <<>>
             /\ currentHand' = Null
             /\ storage' = storage
       /\ errorView
          => \/ /\ lastOp'.op \in {"handleAnswer", "handleNext"}
                /\ UNCHANGED <<appVars, storage, histVars>>
             \/ /\ lastOp'.op = "reload"
                /\ loadingView'
                /\ storage' = storage
       /\ lastOp'.op = "bootstrap" => loadingView
       /\ (loadingView' /\ ~loadingView) => lastOp'.op = "reload"]_vars

\* an answer was tried in the error view reached over a stored blob
C15_Witness ==
    /\ errorView
    /\ lastOp.op = "handleAnswer"
    /\ hands = <<>>
    /\ storage.b = "json"

\* the stored miss counts of a store, by key
SavedCounts(p) == [k \in SavedKeys(p) |-> SavedMisses(p, k).n]

\* C16 as stated: starting from an empty progress store, in every state the
\* total miss count is the sum of the miss counts of all stored entries.
C16_TotalIsSumOfCounts ==
    (quizView /\ loaded = DEFAULT_PROGRESS)
      => progress.totalMisses.n = SumOver(SavedCounts(progress), SavedKeys(progress))

\* the weights the bootstrap gave to the hands of a key
InitialWeights(k) ==
    { InitialHands[i].misses : i \in { j \in 1..Len(InitialHands) : InitialHands[j].Hand = k } }

\* C16 amended: starting from an empty progress store, in every state the
\* entries are those of the keys missed so far and the total miss count is the
\* number of misses recorded, which is the sum over the entries of the stored
\* count minus the reference weight of the hand that was missed.
C16_TotalIsSumOfIncrements ==
    (quizView /\ loaded = DEFAULT_PROGRESS)
      => /\ SavedKeys(progress) = { k \in HandKeys : missed[k] > 0 }
         /\ progress.totalMisses.n = MissedTotal
         /\ \E weight \in [SavedKeys(progress) -> 1..MaxMisses] :
               /\ \A k \in SavedKeys(progress) : weight[k] \in InitialWeights(k)
               /\ progress.totalMisses.n
                    = SumOver([k \in SavedKeys(progress) |-> SavedCounts(progress)[k] - weight[k]],
                              SavedKeys(progress))

\* two keys missed from an empty store: three misses, counts that sum to five
C16_Witness ==
    /\ quizView
    /\ loaded = DEFAULT_PROGRESS
    /\ Cardinality(SavedKeys(progress)) = 2
    /\ progress.totalMisses = Num(3)
    /\ SumOver(SavedCounts(progress), SavedKeys(progress)) = 5

\* the store p holds the weight and the timestamp that hand h shows
Holds(p, h) ==
    /\ SavedMisses(p, h.Hand) = Num(h.misses)
    /\ Get(Saved(p, h.Hand), "lastMissedAt") = h.lastMissedAt

\* C17: an incorrect answer is written through: in no state does a hand of the
\* collection, or the current hand, show a weight or timestamp other than the
\* one the bootstrap gave it unless the progress store in memory and the
\* stored blob both hold that weight and timestamp for its key.
C17_NoWeightAheadOfStore ==
    quizView
      => /\ \A i \in 1..Len(hands) :
               hands[i] # InitialHands[i]
                 => /\ missed[hands[i].Hand] > 0
                    /\ Holds(progress, hands[i])
                    /\ Holds(loadProgressFromStorage(storage), hands[i])
         /\ (currentHand # Null /\ \A i \in 1..Len(hands) : currentHand # InitialHands[i])
               => /\ missed[currentHand.Hand] > 0
                  /\ Holds(progress, currentHand)
                  /\ Holds(loadProgressFromStorage(storage), currentHand)

\* the incorrect answer has just raised the weight of the current hand
C17_Witness ==
    /\ quizView
    /\ answerStatus = "incorrect"
    /\ lastOp.wrote
    /\ \E i \in 1..Len(hands) :
          /\ hands[i] = currentHand
          /\ hands[i].misses = InitialHands[i].misses + 1
          /\ Holds(loadProgressFromStorage(storage), hands[i])

\* C18: when the write of the store fails during an incorrect answer, the
\* effects in memory are still complete (status incorrect, weight and total
\* raised by 1, entry stored), nothing is rolled back, and the session goes on
\* with a next button that can be clicked.
C18_WriteFailureIsNotFatal ==
    [][(MissStep /\ setItemThrows /\ quizView)
         => (/\ answerStatus' = "incorrect"
             /\ selectedValue' = lastOp'.value
             /\ currentHand'.misses = currentHand.misses + 1
             /\ progress'.totalMisses = Num(progress.totalMisses.n + 1)
             /\ SavedMisses(progress', currentHand.Hand) = Num(currentHand.misses + 1)
             /\ quizView'
             /\ ~nextDisabled')]_vars

\* C19: the selected value is null exactly when the status is idle; a status
\* correct or incorrect comes with a current hand; the status is correct
\* exactly when the selected value equals the current hand's Players and
\* incorrect exactly when it differs.
C19_SessionFieldsConsistent ==
    /\ selectedValue = Null <=> answerStatus = "idle"
    /\ answerStatus \in {"correct", "incorrect"}
         => /\ currentHand # Null
            /\ answerStatus = "correct" <=> selectedValue = Num(currentHand.Players)
            /\ answerStatus = "incorrect" <=> selectedValue # Num(currentHand.Players)

\* a second hand has been answered, incorrectly, after a next click
C19_Witness ==
    /\ answerStatus = "incorrect"
    /\ selectedValue # Null
    /\ selectedValue # Num(currentHand.Players)
    /\ MissedTotal >= 2

\* C20: after the bootstrap, for every key that has a stored entry, every hand
\* of the collection with that key, and the current hand if it has that key,
\* has the entry's miss count as weight and the entry's timestamp; the
\* current hand, when there is one, equals a hand of the collection.
C20_HandsAgreeWithStore ==
    quizView
      => /\ \A k \in SavedKeys(progress) :
               /\ \A i \in 1..Len(hands) : hands[i].Hand = k => Holds(progress, hands[i])
               /\ (currentHand # Null /\ currentHand.Hand = k) => Holds(progress, currentHand)
         /\ currentHand # Null => \E i \in 1..Len(hands) : hands[i] = currentHand

====
